---- MODULE Spec2Model ----
(***************************************************************************)
(* A model of fmi_bd2cmake/generator.py: CMakeGenerator.generate and its   *)
(* helpers, and of the architecture/platform logic that generate embeds in *)
(* the CMakeLists.txt it writes.                                           *)
(*                                                                         *)
(* Python str values are TLA+ strings (Len, SubSeq and \o act on them as   *)
(* on Python strings).  A Python list is a sequence, a Python set a set.   *)
(* None is the empty tuple and a present value v the 1-tuple <<v>>.        *)
(***************************************************************************)
EXTENDS Integers, Sequences, FiniteSets, TLC

VARIABLES
    build_info,      \* the BuildInfo handed to generate
    pc,              \* "start" before generate has run, "done" after
    result,          \* what generate gave back: a returned text or a raised error
    lines,           \* generate's local list of lines when it returned or raised
    c_standard,      \* generate's local c_standard (None before line 36)
    cxx_standard,    \* generate's local cxx_standard
    previous,        \* the result of the run before the latest one
    cmake            \* the CMake variables of a configure run of the written project

vars == <<build_info, pc, result, lines, c_standard, cxx_standard, previous, cmake>>

-----------------------------------------------------------------------------
(* Python values *)

None == <<>>

Some(v) == <<v>>

\* Python truthiness of an optional str: None and "" are false.
Truthy(opt) == opt # None /\ opt[1] # ""

Range(s) == {s[i] : i \in 1..Len(s)}

\* The printable ASCII characters in code-point order: 32 (space) to 95, and 97 to
\* 126 (a string of the module cannot hold the grave accent, 96).
Ascii == " !\"#$%&'()*+,-./0123456789:;<=>?@ABCDEFGHIJKLMNOPQRSTUVWXYZ[\\]^_"

AsciiLower == "abcdefghijklmnopqrstuvwxyz{|}~"

CharAt(s, i) == SubSeq(s, i, i)

\* ord(): the code point of a one-character string (tab, newline, form feed and
\* carriage return lie below the printable range).
CodePoint(ch) ==
    CASE ch = "\t" -> 9
      [] ch = "\n" -> 10
      [] ch = "\f" -> 12
      [] ch = "\r" -> 13
      [] \E i \in 1..Len(AsciiLower) : CharAt(AsciiLower, i) = ch ->
            96 + (CHOOSE i \in 1..Len(AsciiLower) : CharAt(AsciiLower, i) = ch)
      [] OTHER -> 31 + (CHOOSE i \in 1..Len(Ascii) : CharAt(Ascii, i) = ch)

\* Python's str < str: lexicographic by code point, a proper prefix first.
RECURSIVE StrLess(_, _)
StrLess(a, b) ==
    IF b = "" THEN FALSE
    ELSE IF a = "" THEN TRUE
    ELSE IF CharAt(a, 1) = CharAt(b, 1) THEN StrLess(Tail(a), Tail(b))
    ELSE CodePoint(CharAt(a, 1)) < CodePoint(CharAt(b, 1))

\* sorted(a set of str): ascending, one entry per element.
RECURSIVE sorted(_)
sorted(S) ==
    IF S = {} THEN <<>>
    ELSE LET least == CHOOSE x \in S : \A y \in S \ {x} : StrLess(x, y)
         IN  <<least>> \o sorted(S \ {least})

\* str.upper() on one character.
UpperChar(ch) ==
    LET n == CodePoint(ch)
    IN  IF 97 <= n /\ n <= 122 THEN CharAt(Ascii, n - 32 - 31) ELSE ch

\* str.upper()
RECURSIVE upper(_)
upper(s) == IF s = "" THEN "" ELSE UpperChar(CharAt(s, 1)) \o upper(Tail(s))

\* str.endswith(suffix)
endswith(s, suffix) ==
    /\ Len(s) >= Len(suffix)
    /\ SubSeq(s, Len(s) - Len(suffix) + 1, Len(s)) = suffix

\* str.endswith(a tuple of suffixes)
endswithAny(s, suffixes) == \E suffix \in suffixes : endswith(s, suffix)

\* The characters str.split() treats as separators.
Whitespace == {" ", "\t", "\n", "\r", "\f"}

\* str.split() with no argument: the maximal runs of non-whitespace, in order.
RECURSIVE SplitFrom(_, _, _)
SplitFrom(s, i, word) ==
    IF i > Len(s) THEN (IF word = "" THEN <<>> ELSE <<word>>)
    ELSE IF CharAt(s, i) \in Whitespace
         THEN (IF word = "" THEN <<>> ELSE <<word>>) \o SplitFrom(s, i + 1, "")
         ELSE SplitFrom(s, i + 1, word \o CharAt(s, i))

split(s) == SplitFrom(s, 1, "")

\* [f(x) for x in seq]
RECURSIVE Flatten(_)
Flatten(seqs) == IF seqs = <<>> THEN <<>> ELSE Head(seqs) \o Flatten(Tail(seqs))

\* "\n".join(lines) + "\n"
RECURSIVE join(_)
join(ls) ==
    IF ls = <<>> THEN ""
    ELSE IF Len(ls) = 1 THEN ls[1]
    ELSE LET half == Len(ls) \div 2
         IN  join(SubSeq(ls, 1, half)) \o "\n" \o join(SubSeq(ls, half + 1, Len(ls)))

-----------------------------------------------------------------------------
(* CMakeGenerator._get_language_standards *)

CLanguages == {"C99", "C89", "C90", "C11", "C17"}

lang_map(lang) ==
    CASE lang = "C89" -> "90"
      [] lang = "C90" -> "90"
      [] lang = "C99" -> "99"
      [] lang = "C11" -> "11"
      [] lang = "C17" -> "17"
      [] OTHER -> "99"

CxxLanguages == {"C++", "CPP", "C++98", "C++03", "C++11", "C++14", "C++17", "C++20"}

cxx_map(lang) ==
    CASE lang = "C++" -> "11"
      [] lang = "CPP" -> "11"
      [] lang = "C++98" -> "98"
      [] lang = "C++03" -> "03"
      [] lang = "C++11" -> "11"
      [] lang = "C++14" -> "14"
      [] lang = "C++17" -> "17"
      [] lang = "C++20" -> "20"
      [] OTHER -> "11"

\* A plausible slip: the last declared standard of a family replaces the first.
UseLastFound(current, found) == Some(found)

\* "if not c_standard: c_standard = ..." (and the same for cxx_standard).
UseFirstFound(current, found) == IF ~Truthy(current) THEN Some(found) ELSE current

\* The loop over config.source_file_sets, from set i on; gives <<c, cxx>>.
RECURSIVE ScanLanguages(_, _, _, _)
ScanLanguages(sets, i, c, cxx) ==
    IF i > Len(sets) THEN <<c, cxx>>
    ELSE LET lang == upper(sets[i].language)
         IN  IF lang \in CLanguages
             THEN ScanLanguages(sets, i + 1, UseFirstFound(c, lang_map(lang)), cxx)
             ELSE IF lang \in CxxLanguages
             THEN ScanLanguages(sets, i + 1, c, UseFirstFound(cxx, cxx_map(lang)))
             ELSE ScanLanguages(sets, i + 1, c, cxx)

CExtensions == {".c", ".h"}

CppExtensions == {".cpp", ".cxx", ".cc", ".hpp", ".hxx"}

\* sf.name for sfs in config.source_file_sets for sf in sfs.source_files
AllFileNames(config) ==
    UNION {{sf.name : sf \in Range(sfs.source_files)} :
              sfs \in Range(config.source_file_sets)}

\* A plausible slip: each family falls back on its own, whatever the other declared.
FallbackPerFamily(config, c, cxx) ==
    LET has_c_files   == \E n \in AllFileNames(config) : endswithAny(n, CExtensions)
        has_cpp_files == \E n \in AllFileNames(config) : endswithAny(n, CppExtensions)
    IN  IF ~Truthy(cxx) /\ has_cpp_files THEN <<c, Some("11")>>
        ELSE IF ~Truthy(c) /\ has_c_files THEN <<Some("99"), cxx>>
        ELSE <<c, cxx>>

\* The defaults from the file extensions, when no standard was declared.
ExtensionFallback(config, c, cxx) ==
    IF ~Truthy(c) /\ ~Truthy(cxx)
    THEN LET has_c_files   == \E n \in AllFileNames(config) : endswithAny(n, CExtensions)
             has_cpp_files == \E n \in AllFileNames(config) : endswithAny(n, CppExtensions)
         IN  IF has_cpp_files THEN <<c, Some("11")>>
             ELSE IF has_c_files THEN <<Some("99"), cxx>>
             ELSE <<c, cxx>>
    ELSE <<c, cxx>>

_get_language_standards(config) ==
    LET declared == ScanLanguages(config.source_file_sets, 1, None, None)
    IN  ExtensionFallback(config, declared[1], declared[2])

-----------------------------------------------------------------------------
(* CMakeGenerator._generate_architecture_detection *)

_generate_architecture_detection ==
    << "# Architecture detection",
       "set(FMI_ARCHITECTURE \"\" CACHE STRING \"FMI Architecture\")",
       "set_property(CACHE FMI_ARCHITECTURE PROPERTY STRINGS \"\" \"aarch64\" \"x86\" \"x86_64\")",
       "",
       "if (NOT FMI_ARCHITECTURE)",
       "  # Try CMAKE_SYSTEM_PROCESSOR first, then CMAKE_HOST_SYSTEM_PROCESSOR as fallback",
       "  set(PROCESSOR \"${CMAKE_SYSTEM_PROCESSOR}\")",
       "  if (NOT PROCESSOR)",
       "    set(PROCESSOR \"${CMAKE_HOST_SYSTEM_PROCESSOR}\")",
       "  endif()",
       "  ",
       "  if (PROCESSOR MATCHES \"AMD64|x86_64\")",
       "    set(FMI_ARCHITECTURE \"x86_64\")",
       "  elseif (PROCESSOR MATCHES \"i386|i686|x86\")",
       "    set(FMI_ARCHITECTURE \"x86\")",
       "  elseif (PROCESSOR MATCHES \"aarch64|arm64\")",
       "    set(FMI_ARCHITECTURE \"aarch64\")",
       "  elseif (PROCESSOR MATCHES \"arm\")",
       "    set(FMI_ARCHITECTURE \"arm\")",
       "  else ()",
       "    # Default to x86_64 if processor is unknown or empty",
       "    message(STATUS \"Unknown or empty system processor '${PROCESSOR}', defaulting to x86_64\")",
       "    set(FMI_ARCHITECTURE \"x86_64\")",
       "  endif ()",
       "endif ()",
       "",
       "# Platform detection",
       "if (WIN32)",
       "  set(FMI_PLATFORM \"${FMI_ARCHITECTURE}-windows\")",
       "elseif (APPLE)",
       "  set(FMI_PLATFORM \"${FMI_ARCHITECTURE}-darwin\")",
       "else ()",
       "  set(FMI_PLATFORM \"${FMI_ARCHITECTURE}-linux\")",
       "endif ()",
       "",
       "message(STATUS \"FMI Platform: ${FMI_PLATFORM}\")" >>

(* CMakeGenerator._generate_fmi_headers_section *)

_generate_fmi_headers_section ==
    << "# Find FMI headers directory",
       "# Can be set via -DFMI_HEADERS_DIR=/path or FMI_HEADERS_DIR environment variable",
       "if(NOT FMI_HEADERS_DIR)",
       "    # Try environment variable first",
       "    set(FMI_HEADERS_DIR $ENV{FMI_HEADERS_DIR})",
       "endif()",
       "",
       "# Try to find fmi2Functions.h if FMI_HEADERS_DIR is not set",
       "if(NOT FMI_HEADERS_DIR)",
       "    find_path(FMI_HEADERS_DIR",
       "        NAMES fmi2Functions.h",
       "        PATHS",
       "            /usr/include/fmi2",
       "            /usr/local/include/fmi2",
       "            /opt/local/include/fmi2",
       "            ${CMAKE_SOURCE_DIR}/../fmi-headers",
       "            ${CMAKE_SOURCE_DIR}/fmi-headers",
       "        DOC \"FMI headers directory containing fmi2Functions.h\"",
       "    )",
       "endif()",
       "",
       "if(FMI_HEADERS_DIR)",
       "    message(STATUS \"Using FMI headers from: ${FMI_HEADERS_DIR}\")",
       "else()",
       "    message(STATUS \"FMI headers not found - you may need to set FMI_HEADERS_DIR\")",
       "endif()" >>

-----------------------------------------------------------------------------
(* CMakeGenerator.generate *)

\* The lines appended before the build configurations are looked at.
Preamble ==
    << "cmake_minimum_required(VERSION 3.5)", "",
       "set(CMAKE_SHARED_LIBRARY_PREFIX \"\")", "" >>

\* A plausible slip: the lines assembled so far are handed back instead of an error.
ReturnAssembled(message, assembled) ==
    [result |-> [kind |-> "text", text |-> join(assembled) \o "\n"], lines |-> assembled]

\* raise ValueError(message): generate ends with the error and hands back no text.
RaiseValueError(message, assembled) ==
    [result |-> [kind |-> "ValueError", message |-> message], lines |-> assembled]

\* return "\n".join(lines) + "\n"
ReturnText(assembled) ==
    [result |-> [kind |-> "text", text |-> join(assembled) \o "\n"], lines |-> assembled]

\* A plausible slip: the last configuration is used instead of the first.
LastConfiguration(info) == info.build_configurations[Len(info.build_configurations)]

\* config = build_info.build_configurations[0]
FirstConfiguration(info) == info.build_configurations[1]

\* project_name = config.model_identifier or "fmi_model"
project_name(config) ==
    IF config.model_identifier # "" THEN config.model_identifier ELSE "fmi_model"

\* The set(CMAKE_..._STANDARD ...) lines and the blank line after them.
StandardLines(c, cxx) ==
    (IF Truthy(c) THEN << "set(CMAKE_C_STANDARD " \o c[1] \o ")" >> ELSE <<>>)
    \o (IF Truthy(cxx) THEN << "set(CMAKE_CXX_STANDARD " \o cxx[1] \o ")" >> ELSE <<>>)
    \o (IF Truthy(c) \/ Truthy(cxx) THEN << "" >> ELSE <<>>)

\* The lines written for a block's entries: four spaces and the entry.
Indented(entries) == [i \in 1..Len(entries) |-> "    " \o entries[i]]

\* A plausible slip: the files are collected into a set and listed sorted.
SourceFilesSorted(config) ==
    sorted({"sources/" \o n : n \in AllFileNames(config)})

\* source_files: "sources/" + sf.name for every file of every set, in order.
source_files(config) ==
    Flatten([i \in 1..Len(config.source_file_sets) |->
                [j \in 1..Len(config.source_file_sets[i].source_files) |->
                    "sources/" \o config.source_file_sets[i].source_files[j].name]])

\* A plausible slip: the check looks for source-file sets rather than source files.
NoSourceFileSets(config, files) == config.source_file_sets = <<>>

\* "if not source_files"
NoSourceFiles(config, files) == files = <<>>

AddLibrarySection(project, files) ==
    << "# Create shared library",
       "add_library(" \o project \o " SHARED" >>
    \o Indented(files)
    \o << ")", "" >>

TargetPropertiesSection(project) ==
    << "# Set target properties",
       "set_target_properties(" \o project \o " PROPERTIES",
       "    OUTPUT_NAME " \o project,
       "    LIBRARY_OUTPUT_DIRECTORY binaries/${FMI_PLATFORM}",
       "    RUNTIME_OUTPUT_DIRECTORY binaries/${FMI_PLATFORM}",
       ")", "" >>

\* include_dirs: the set built from "sources", the global and the per-set directories.
include_dirs(config) ==
    {"sources"}
    \cup Range(config.include_directories)
    \cup UNION {Range(sfs.include_directories) : sfs \in Range(config.source_file_sets)}

\* A plausible slip: the directories are kept in a list, in declared order.
IncludeEntriesAsDeclared(config) ==
    << "sources" >> \o config.include_directories
    \o Flatten([i \in 1..Len(config.source_file_sets) |->
                   config.source_file_sets[i].include_directories])

\* "for inc_dir in sorted(include_dirs)"
IncludeEntries(config) == sorted(include_dirs(config))

IncludeSection(project, entries) ==
    (IF _generate_fmi_headers_section # <<>>
        THEN _generate_fmi_headers_section \o << "" >> ELSE <<>>)
    \o (IF entries # <<>>
        THEN << "# Include directories",
                "target_include_directories(" \o project \o " PRIVATE",
                "    $<$<BOOL:${FMI_HEADERS_DIR}>:${FMI_HEADERS_DIR}>" >>
             \o Indented(entries)
             \o << ")", "" >>
        ELSE <<>>)

\* definitions: the set built from the global and the per-set definitions.
definitions(config) ==
    Range(config.preprocessor_definitions)
    \cup UNION {Range(sfs.preprocessor_definitions) :
                   sfs \in Range(config.source_file_sets)}

\* A plausible slip: the block is written without the "if definitions" guard.
DefinitionsSectionUnguarded(project, defs) ==
    << "# Preprocessor defs",
       "target_compile_definitions(" \o project \o " PRIVATE" >>
    \o Indented(sorted(defs))
    \o << ")", "" >>

DefinitionsSection(project, defs) ==
    IF defs # {}
    THEN << "# Preprocessor defs",
            "target_compile_definitions(" \o project \o " PRIVATE" >>
         \o Indented(sorted(defs))
         \o << ")", "" >>
    ELSE <<>>

\* compiler_options: the tokens of every set's truthy option string.
compiler_options(config) ==
    UNION {IF sfs.compiler_options # "" THEN Range(split(sfs.compiler_options)) ELSE {} :
              sfs \in Range(config.source_file_sets)}

CompilerOptionsSection(project, options) ==
    IF options # {}
    THEN << "# Compiler options",
            "target_compile_options(" \o project \o " PRIVATE" >>
         \o Indented(sorted(options))
         \o << ")", "" >>
    ELSE <<>>

\* A plausible slip: the libraries are deduplicated and sorted like the other blocks.
LibraryEntriesSorted(config) == sorted(Range(config.libraries))

\* "for library in config.libraries"
LibraryEntries(config) == config.libraries

LinkLibrariesSection(project, libraries) ==
    IF libraries # <<>>
    THEN << "# Link libraries",
            "target_link_libraries(" \o project \o " PRIVATE" >>
         \o Indented(libraries)
         \o << ")", "" >>
    ELSE <<>>

InstallSection(project) ==
    << "# Install rules",
       "install(TARGETS " \o project,
       "    LIBRARY DESTINATION binaries/${FMI_PLATFORM}",
       "    RUNTIME DESTINATION binaries/${FMI_PLATFORM}",
       ")",
       "",
       "# Create binaries directory",
       "file(MAKE_DIRECTORY ${CMAKE_BINARY_DIR}/binaries/${FMI_PLATFORM})" >>

\* generate(build_info): the result, and the local list of lines at the exit.
generate(info) ==
    IF info.build_configurations = <<>>
    THEN RaiseValueError("No build configurations found", Preamble)
    ELSE
    LET config       == FirstConfiguration(info)
        project      == project_name(config)
        standards    == _get_language_standards(config)
        upToSources  == Preamble
                        \o << "project(" \o project \o ")", "" >>
                        \o _generate_architecture_detection \o << "" >>
                        \o StandardLines(standards[1], standards[2])
        files        == source_files(config)
    IN  IF NoSourceFiles(config, files)
        THEN RaiseValueError("No source files found in build configuration", upToSources)
        ELSE ReturnText(
                 upToSources
                 \o AddLibrarySection(project, files)
                 \o TargetPropertiesSection(project)
                 \o IncludeSection(project, IncludeEntries(config))
                 \o DefinitionsSection(project, definitions(config))
                 \o CompilerOptionsSection(project, compiler_options(config))
                 \o LinkLibrariesSection(project, LibraryEntries(config))
                 \o InstallSection(project))

-----------------------------------------------------------------------------
(* The CMake code of _generate_architecture_detection, as CMake runs it when *)
(* the written project is configured.                                        *)

\* The constants CMake's if() takes for false, compared without regard to case; an
\* empty value and one ending in -NOTFOUND are false too.
CMakeFalseConstants == {"0", "OFF", "NO", "FALSE", "N", "IGNORE", "NOTFOUND"}

\* if (<variable>): the variable is defined to a value that is not a false constant.
CMakeTrue(value) ==
    /\ value # ""
    /\ upper(value) \notin CMakeFalseConstants
    /\ ~endswith(upper(value), "-NOTFOUND")

\* value MATCHES "a|b|...": some alternative occurs somewhere in the value.
Matches(value, alternatives) ==
    \E a \in alternatives :
        \E i \in 1..(Len(value) - Len(a) + 1) : SubSeq(value, i, i + Len(a) - 1) = a

\* set(PROCESSOR "${CMAKE_SYSTEM_PROCESSOR}"), then the host's when that is false.
ProcessorOf(system_processor, host_processor) ==
    IF ~CMakeTrue(system_processor) THEN host_processor ELSE system_processor

\* A plausible slip: the x86 test is made before the x86_64 test, the arm test
\* before the arm64 test.
ArchitectureShortFirst(processor) ==
    IF Matches(processor, {"i386", "i686", "x86"}) THEN "x86"
    ELSE IF Matches(processor, {"AMD64", "x86_64"}) THEN "x86_64"
    ELSE IF Matches(processor, {"arm"}) THEN "arm"
    ELSE IF Matches(processor, {"aarch64", "arm64"}) THEN "aarch64"
    ELSE "x86_64"

\* The if / elseif chain over PROCESSOR.
ArchitectureOf(processor) ==
    IF Matches(processor, {"AMD64", "x86_64"}) THEN "x86_64"
    ELSE IF Matches(processor, {"i386", "i686", "x86"}) THEN "x86"
    ELSE IF Matches(processor, {"aarch64", "arm64"}) THEN "aarch64"
    ELSE IF Matches(processor, {"arm"}) THEN "arm"
    ELSE "x86_64"

\* The if (WIN32) / elseif (APPLE) / else chain.
PlatformOf(architecture, win32, apple) ==
    IF win32 THEN architecture \o "-windows"
    ELSE IF apple THEN architecture \o "-darwin"
    ELSE architecture \o "-linux"

-----------------------------------------------------------------------------
(* Inputs *)

MaxSets == 2
MaxFiles == 2
MaxDirs == 2
MaxDefs == 2
MaxLibs == 3
MaxConfigs == 2

\* The lists over S of at most n entries.
Lists(S, n) == UNION {[1..k -> S] : k \in 0..n}

\* The lists of at most n entries whose first is of First and whose others are of Rest.
ListsFrom(First, Rest, n) ==
    {<<>>} \cup (IF n = 0 THEN {} ELSE {<<f>> \o r : f \in First, r \in Lists(Rest, n - 1)})

SourceFile(name) == [name |-> name]

FilesNamed(names) == [i \in 1..Len(names) |-> SourceFile(names[i])]

SourceFileSet(language, names, dirs, defs, options) ==
    [language |-> language, source_files |-> FilesNamed(names),
     include_directories |-> dirs, preprocessor_definitions |-> defs,
     compiler_options |-> options]

BuildConfiguration(identifier, sets, dirs, defs, libs) ==
    [model_identifier |-> identifier, source_file_sets |-> sets,
     include_directories |-> dirs, preprocessor_definitions |-> defs,
     libraries |-> libs]

BuildInfo(configs) == [build_configurations |-> configs]

\* Language tags: every recognized token, some in other letter cases, some unrecognized.
Languages ==
    CLanguages \cup CxxLanguages \cup {"c99", "c++17", "Cpp"} \cup {"", "C", "C++23"}

LaterLanguages == {"C89", "C11", "c++14", "CPP", "", "C++23"}

FewLanguages == {"", "C99", "c++14"}

FileNames ==
    {"model.c", "api.h", "impl.cpp", "a.cxx", "b.cc", "c.hpp", "d.hxx", "notes.txt", "main.C"}

LaterFileNames == {"model.c", "impl.cpp", "notes.txt"}

OrderedNames == {"b.c", "a.c", "sub/z.c"}

Dirs == {"inc", "extra", "sources", "Zlib"}

Defs == {"NDEBUG", "FMI_VERSION=2", "A"}

OptionStrings == {"", " ", "-Wall -O2", "  -O2\t-O2 \n"}

Libs == {"m", "dl", "pthread"}

\* Configurations that vary the declared languages of up to MaxSets sets.
LanguageConfigs ==
    {BuildConfiguration("model", sets, <<>>, <<>>, <<>>) :
        sets \in ListsFrom(
                     {SourceFileSet(l, <<"model.c">>, <<>>, <<>>, "") : l \in Languages},
                     {SourceFileSet(l, <<"model.c">>, <<>>, <<>>, "") : l \in LaterLanguages},
                     MaxSets)}

\* Configurations that vary the file names against a few language tags.
ExtensionConfigs ==
    {BuildConfiguration("model", <<SourceFileSet(l, names, <<>>, <<>>, "")>>,
                        <<>>, <<>>, <<>>) :
        l \in FewLanguages, names \in ListsFrom(FileNames, LaterFileNames, MaxFiles)}
    \cup
    {BuildConfiguration("model",
                        <<SourceFileSet(l1, n1, <<>>, <<>>, ""),
                          SourceFileSet(l2, n2, <<>>, <<>>, "")>>,
                        <<>>, <<>>, <<>>) :
        l1 \in FewLanguages, l2 \in FewLanguages,
        n1 \in {<<>>, <<"model.c">>, <<"impl.cpp">>},
        n2 \in {<<>>, <<"model.c">>, <<"impl.cpp">>}}

\* Configurations that vary the global and the per-set include directories.
IncludeConfigs ==
    {BuildConfiguration("model",
                        <<SourceFileSet("C99", <<"model.c">>, d1, <<>>, ""),
                          SourceFileSet("C99", <<"util.c">>, d2, <<>>, "")>>,
                        d, <<>>, <<>>) :
        d \in Lists(Dirs, MaxDirs),
        d1 \in Lists({"inc", "extra"}, 1), d2 \in Lists({"inc", "extra"}, 1)}

\* Configurations that vary the definitions and the compiler options.
DefinitionConfigs ==
    {BuildConfiguration("model",
                        <<SourceFileSet("C99", <<"model.c">>, <<>>, f1, o1),
                          SourceFileSet("", <<"util.c">>, <<>>, <<>>, o2)>>,
                        <<>>, f, <<>>) :
        f \in Lists(Defs, MaxDefs), f1 \in {<<>>, <<"NDEBUG">>},
        o1 \in OptionStrings, o2 \in {"", "-O2"}}

\* Configurations that vary the libraries and the model identifier.
LibraryConfigs ==
    {BuildConfiguration(identifier,
                        <<SourceFileSet("C++", <<"impl.cpp">>, <<>>, <<>>, "")>>,
                        <<>>, <<>>, libs) :
        identifier \in {"", "BouncingBall"}, libs \in Lists(Libs, MaxLibs)}

\* Configurations that vary the order and the repetition of the source files.
SourceOrderConfigs ==
    {BuildConfiguration("model",
                        <<SourceFileSet("C11", n1, <<>>, <<>>, ""),
                          SourceFileSet("C11", n2, <<>>, <<>>, "")>>,
                        <<>>, <<>>, <<>>) :
        n1 \in Lists(OrderedNames, MaxFiles), n2 \in Lists(OrderedNames, 1)}

\* Configurations without any source file, otherwise varied.
SourcelessConfigs ==
    {BuildConfiguration("model", sets, d, f, libs) :
        sets \in Lists({SourceFileSet(l, <<>>, <<>>, <<>>, o) :
                           l \in FewLanguages, o \in {"", "-O2"}}, 2),
        d \in {<<>>, <<"inc">>}, f \in {<<>>, <<"NDEBUG">>}, libs \in {<<>>, <<"m">>}}

\* Configurations that differ in every section, for the lists of several.
SampleConfigs ==
    {BuildConfiguration("model", <<SourceFileSet("C99", <<"model.c">>, <<>>, <<>>, "")>>,
                        <<>>, <<>>, <<>>),
     BuildConfiguration("other", <<SourceFileSet("C++17", <<"impl.cpp">>, <<"inc">>,
                                                  <<"NDEBUG">>, "-O2")>>,
                        <<"extra">>, <<"A">>, <<"m">>),
     BuildConfiguration("", <<SourceFileSet("", <<"notes.txt">>, <<>>, <<>>, "")>>,
                        <<>>, <<>>, <<"dl", "m">>),
     BuildConfiguration("empty", <<>>, <<"inc">>, <<>>, <<>>)}

BuildInfos ==
    {BuildInfo(<<config>>) :
        config \in LanguageConfigs \cup ExtensionConfigs \cup IncludeConfigs
                   \cup DefinitionConfigs \cup LibraryConfigs \cup SourceOrderConfigs
                   \cup SourcelessConfigs}
    \cup {BuildInfo(configs) : configs \in Lists(SampleConfigs, MaxConfigs)}

\* Processor identifiers as systems report them, and none.
Processors ==
    {"", "x86_64", "AMD64", "i386", "i686", "x86", "aarch64", "arm64", "armv7l", "arm",
     "ARM64", "ppc64le", "riscv64"}

\* FMI_ARCHITECTURE as the cache may hold it before the project is configured.
PresetArchitectures == {"", "x86", "aarch64"}

-----------------------------------------------------------------------------
(* The generator *)

NoResult == [kind |-> "none"]

NotConfigured ==
    [at |-> "off", CMAKE_SYSTEM_PROCESSOR |-> "", CMAKE_HOST_SYSTEM_PROCESSOR |-> "",
     WIN32 |-> FALSE, APPLE |-> FALSE, preset |-> "",
     FMI_ARCHITECTURE |-> "", FMI_PLATFORM |-> ""]

Init ==
    /\ build_info \in BuildInfos
    /\ pc = "start"
    /\ result = NoResult
    /\ lines = <<>>
    /\ c_standard = None
    /\ cxx_standard = None
    /\ previous = NoResult
    /\ cmake = NotConfigured

\* One call of generate(build_info).
Run ==
    LET exit == generate(build_info)
        standards == IF build_info.build_configurations = <<>>
                     THEN <<None, None>>
                     ELSE _get_language_standards(FirstConfiguration(build_info))
    IN  /\ result' = exit.result
        /\ lines' = exit.lines
        /\ c_standard' = standards[1]
        /\ cxx_standard' = standards[2]

\* The first call.
Generate ==
    /\ pc = "start"
    /\ Run
    /\ pc' = "done"
    /\ UNCHANGED <<build_info, previous, cmake>>

\* A further call on the same BuildInfo.
Regenerate ==
    /\ pc = "done"
    /\ Run
    /\ previous' = result
    /\ UNCHANGED <<build_info, pc, cmake>>

Next == Generate \/ Regenerate

Spec == Init /\ [][Next]_vars

-----------------------------------------------------------------------------
(* Configuring the written project *)

ConfigureInit ==
    /\ build_info = BuildInfo(<<>>)
    /\ pc = "start"
    /\ result = NoResult
    /\ lines = <<>>
    /\ c_standard = None
    /\ cxx_standard = None
    /\ previous = NoResult
    /\ \E system_processor \in Processors, host_processor \in Processors,
          os \in {"windows", "darwin", "linux"}, preset \in PresetArchitectures :
          cmake = [at |-> "architecture",
                   CMAKE_SYSTEM_PROCESSOR |-> system_processor,
                   CMAKE_HOST_SYSTEM_PROCESSOR |-> host_processor,
                   WIN32 |-> (os = "windows"), APPLE |-> (os = "darwin"),
                   preset |-> preset,
                   FMI_ARCHITECTURE |-> preset, FMI_PLATFORM |-> ""]

\* if (NOT FMI_ARCHITECTURE) ... endif ()
DetectArchitecture ==
    /\ cmake.at = "architecture"
    /\ cmake' = [cmake EXCEPT
                    !.at = "platform",
                    !.FMI_ARCHITECTURE =
                        IF ~CMakeTrue(cmake.FMI_ARCHITECTURE)
                        THEN ArchitectureOf(ProcessorOf(cmake.CMAKE_SYSTEM_PROCESSOR,
                                                        cmake.CMAKE_HOST_SYSTEM_PROCESSOR))
                        ELSE cmake.FMI_ARCHITECTURE]
    /\ UNCHANGED <<build_info, pc, result, lines, c_standard, cxx_standard, previous>>

\* if (WIN32) ... endif ()
DetectPlatform ==
    /\ cmake.at = "platform"
    /\ cmake' = [cmake EXCEPT
                    !.at = "end",
                    !.FMI_PLATFORM = PlatformOf(cmake.FMI_ARCHITECTURE,
                                                cmake.WIN32, cmake.APPLE)]
    /\ UNCHANGED <<build_info, pc, result, lines, c_standard, cxx_standard, previous>>

ConfigureNext == DetectArchitecture \/ DetectPlatform

ConfigureSpec == ConfigureInit /\ [][ConfigureNext]_vars

-----------------------------------------------------------------------------
(* Vocabulary of the properties *)

\* generate has run and handed back a text.
Succeeded == pc = "done" /\ result.kind = "text"

\* generate has run on a BuildInfo that has a configuration.
RanOnConfiguration == pc = "done" /\ build_info.build_configurations # <<>>

\* The configuration at index 0 and its source-file sets.
Config0 == build_info.build_configurations[1]

Sets0 == Config0.source_file_sets

StartsWith(s, prefix) == Len(s) >= Len(prefix) /\ SubSeq(s, 1, Len(prefix)) = prefix

\* Where the lines that open with prefix stand in the output.
Positions(prefix) == {i \in 1..Len(lines) : StartsWith(lines[i], prefix)}

\* The entries of the block opened at line h: the lines up to its closing ")".
BlockAt(h) ==
    LET close == CHOOSE j \in (h + 1)..Len(lines) :
                     /\ lines[j] = ")"
                     /\ \A k \in (h + 1)..(j - 1) : lines[k] # ")"
    IN  SubSeq(lines, h + 1, close - 1)

\* The entries of the one block opened by a line with this prefix.
Block(prefix) == BlockAt(CHOOSE h \in Positions(prefix) : TRUE)

Least(S) == CHOOSE x \in S : \A y \in S : x <= y

\* The C standard a language tag stands for, "" when it is no C token.
DeclaredC(tag) ==
    CASE tag \in {"C89", "C90"} -> "90"
      [] tag \in {"C99", "c99"} -> "99"
      [] tag = "C11" -> "11"
      [] tag = "C17" -> "17"
      [] OTHER -> ""

\* The C++ standard a language tag stands for, "" when it is no C++ token.
DeclaredCxx(tag) ==
    CASE tag \in {"C++", "CPP", "Cpp", "C++11"} -> "11"
      [] tag = "C++98" -> "98"
      [] tag = "C++03" -> "03"
      [] tag \in {"C++14", "c++14"} -> "14"
      [] tag \in {"C++17", "c++17"} -> "17"
      [] tag = "C++20" -> "20"
      [] OTHER -> ""

\* The sets of the first configuration that declare a C token, a C++ token.
CSets == {i \in 1..Len(Sets0) : DeclaredC(Sets0[i].language) # ""}

CxxSets == {i \in 1..Len(Sets0) : DeclaredCxx(Sets0[i].language) # ""}

\* The file names of the first configuration.
Names0 == UNION {{sf.name : sf \in Range(Sets0[i].source_files)} : i \in 1..Len(Sets0)}

\* The names used here that end in a C++ extension, in a C extension.
CppNamed == {"impl.cpp", "a.cxx", "b.cc", "c.hpp", "d.hxx"}

CNamed == {"model.c", "api.h", "util.c", "a.c", "b.c", "sub/z.c"}

-----------------------------------------------------------------------------
(* Properties *)

\* C1: a BuildInfo without build configurations makes generate fail with the
\* ValueError "No build configurations found", and no text is handed back.
C1_NoConfigurationFails ==
    (pc = "done" /\ build_info.build_configurations = <<>>)
        => /\ result.kind = "ValueError"
           /\ result = [kind |-> "ValueError", message |-> "No build configurations found"]

C1_Witness ==
    pc = "done" /\ build_info.build_configurations = <<>> /\ result.kind = "ValueError"

\* C2: a first configuration without any source file makes generate fail with the
\* ValueError "No source files found in build configuration", and no text is handed
\* back, whatever else the configuration holds.
C2_NoSourcesFails ==
    (RanOnConfiguration /\ \A i \in 1..Len(Sets0) : Sets0[i].source_files = <<>>)
        => result = [kind |-> "ValueError",
                     message |-> "No source files found in build configuration"]

C2_Witness ==
    /\ RanOnConfiguration
    /\ Len(Sets0) = 2
    /\ \A i \in 1..Len(Sets0) : Sets0[i].source_files = <<>>
    /\ Sets0[1].language = "C99"
    /\ Config0.libraries # <<>>
    /\ Config0.include_directories # <<>>
    /\ result.kind = "ValueError"

\* C3: the C standard is the one of the first set that declares a C token, the C++
\* standard the one of the first set that declares a C++ token, the tags compared
\* without regard to case.
C3_FirstDeclaredWins ==
    RanOnConfiguration
        => /\ CSets # {} => c_standard = <<DeclaredC(Sets0[Least(CSets)].language)>>
           /\ CxxSets # {} => cxx_standard = <<DeclaredCxx(Sets0[Least(CxxSets)].language)>>

C3_Witness ==
    /\ RanOnConfiguration
    /\ Len(Sets0) = 2
    /\ Sets0[1].language = "C89"
    /\ Sets0[2].language = "C11"
    /\ c_standard = <<"90">>

\* C4: the file extensions decide only when no set declares a recognized token: then
\* a C++ extension gives C++ 11 and no C standard, else a C extension gives C 99,
\* else neither is set; with a recognized token declared, a family that declares
\* none stays unset whatever the extensions.
C4_ExtensionFallback ==
    RanOnConfiguration
        => IF CSets = {} /\ CxxSets = {}
           THEN IF Names0 \cap CppNamed # {}
                THEN c_standard = None /\ cxx_standard = <<"11">>
                ELSE IF Names0 \cap CNamed # {}
                THEN c_standard = <<"99">> /\ cxx_standard = None
                ELSE c_standard = None /\ cxx_standard = None
           ELSE /\ CSets = {} => c_standard = None
                /\ CxxSets = {} => cxx_standard = None

C4_Witness ==
    /\ RanOnConfiguration
    /\ Len(Sets0) = 1
    /\ Sets0[1].language = "C99"
    /\ "impl.cpp" \in Names0
    /\ c_standard = <<"99">>
    /\ cxx_standard = None

\* The include directories the first configuration declares, and "sources".
DeclaredIncludeDirs ==
    {"sources"}
    \cup Range(Config0.include_directories)
    \cup UNION {Range(Sets0[i].include_directories) : i \in 1..Len(Sets0)}

\* C5: the include block of a written text lists, after the FMI headers entry, every
\* directory of the union of "sources", the global and the per-set include
\* directories exactly once, in ascending order.
C5_IncludeDirsSortedOnce ==
    Succeeded
        => /\ Cardinality(Positions("target_include_directories(")) = 1
           /\ LET block == Block("target_include_directories(")
              IN  /\ Len(block) = 1 + Cardinality(DeclaredIncludeDirs)
                  /\ block[1] = "    $<$<BOOL:${FMI_HEADERS_DIR}>:${FMI_HEADERS_DIR}>"
                  /\ {block[i] : i \in 2..Len(block)}
                         = {"    " \o d : d \in DeclaredIncludeDirs}
                  /\ \A i \in 2..(Len(block) - 1) : StrLess(block[i], block[i + 1])

C5_Witness ==
    /\ Succeeded
    /\ Config0.include_directories = <<"inc", "extra">>
    /\ Len(Sets0) = 2
    /\ Sets0[1].include_directories = <<"inc">>
    /\ Sets0[2].include_directories = <<"extra">>
    /\ Block("target_include_directories(")
           = << "    $<$<BOOL:${FMI_HEADERS_DIR}>:${FMI_HEADERS_DIR}>",
                "    extra", "    inc", "    sources" >>

\* C6: the link-library block of a written text lists the libraries as declared:
\* as many, in the same order, repeated names repeated.
C6_LibrariesAsDeclared ==
    (Succeeded /\ Config0.libraries # <<>>)
        => /\ Cardinality(Positions("target_link_libraries(")) = 1
           /\ LET block == Block("target_link_libraries(")
              IN  /\ Len(block) = Len(Config0.libraries)
                  /\ \A i \in 1..Len(block) : block[i] = "    " \o Config0.libraries[i]

C6_Witness ==
    /\ Succeeded
    /\ Config0.libraries = <<"pthread", "m", "pthread">>
    /\ Block("target_link_libraries(") = <<"    pthread", "    m", "    pthread">>

RECURSIVE FilesBefore(_)
FilesBefore(i) == IF i <= 1 THEN 0 ELSE FilesBefore(i - 1) + Len(Sets0[i - 1].source_files)

\* C8: the library target of a written text lists every source file of the first
\* configuration as "sources/" and its name, sets and files in declared order,
\* none dropped, reordered or merged.
C8_SourcesInDeclaredOrder ==
    Succeeded
        => /\ Cardinality(Positions("add_library(")) = 1
           /\ LET block == Block("add_library(")
              IN  /\ Len(block) = FilesBefore(Len(Sets0) + 1)
                  /\ \A i \in 1..Len(Sets0) : \A j \in 1..Len(Sets0[i].source_files) :
                         block[FilesBefore(i) + j]
                             = "    sources/" \o Sets0[i].source_files[j].name

C8_Witness ==
    /\ Succeeded
    /\ Len(Sets0) = 2
    /\ Block("add_library(") = <<"    sources/b.c", "    sources/a.c", "    sources/b.c">>
    /\ Len(Sets0[1].source_files) = 2

\* The definitions the first configuration declares.
DeclaredDefinitions ==
    Range(Config0.preprocessor_definitions)
    \cup UNION {Range(Sets0[i].preprocessor_definitions) : i \in 1..Len(Sets0)}

\* Some set's option string holds a character that is not whitespace.
SomeOptionToken ==
    \E i \in 1..Len(Sets0) : \E k \in 1..Len(Sets0[i].compiler_options) :
        CharAt(Sets0[i].compiler_options, k) \notin Whitespace

\* C9: in a written text a block stands exactly when it has entries: the definition
\* block iff some definition is declared, the option block iff some option string
\* holds a token, the library block iff a library is declared, a standard line iff
\* that standard was derived; and no block is closed right after it is opened.
C9_EmptySectionsOmitted ==
    Succeeded
        => /\ Positions("target_compile_definitions(") # {} <=> DeclaredDefinitions # {}
           /\ Positions("target_compile_options(") # {} <=> SomeOptionToken
           /\ Positions("target_link_libraries(") # {} <=> Config0.libraries # <<>>
           /\ Positions("set(CMAKE_C_STANDARD ") # {} <=> c_standard # None
           /\ Positions("set(CMAKE_CXX_STANDARD ") # {} <=> cxx_standard # None
           /\ \A h \in Positions("set(CMAKE_C_STANDARD ") :
                  lines[h] = "set(CMAKE_C_STANDARD " \o c_standard[1] \o ")"
           /\ \A h \in Positions("set(CMAKE_CXX_STANDARD ") :
                  lines[h] = "set(CMAKE_CXX_STANDARD " \o cxx_standard[1] \o ")"
           /\ \A h \in Positions("target_compile_definitions(")
                       \cup Positions("target_compile_options(")
                       \cup Positions("target_link_libraries(")
                       \cup Positions("target_include_directories(")
                       \cup Positions("add_library(") :
                  BlockAt(h) # <<>>

C9_Witness ==
    /\ Succeeded
    /\ DeclaredDefinitions = {}
    /\ Len(Sets0) = 2
    /\ Sets0[1].compiler_options = " "
    /\ Sets0[2].compiler_options = ""
    /\ Config0.libraries = <<>>
    /\ Positions("target_compile_definitions(") = {}
    /\ Positions("target_compile_options(") = {}
    /\ Positions("set(CMAKE_C_STANDARD ") # {}
    /\ Positions("set(CMAKE_CXX_STANDARD ") = {}

\* The processor identifier the architecture is taken from: the target's, and the
\* host's when the target's is empty.
ChosenProcessor ==
    IF cmake.CMAKE_SYSTEM_PROCESSOR # ""
    THEN cmake.CMAKE_SYSTEM_PROCESSOR
    ELSE cmake.CMAKE_HOST_SYSTEM_PROCESSOR

\* The architecture of a processor identifier, by family.
FamilyOf(processor) ==
    CASE processor \in {"x86_64", "AMD64"} -> "x86_64"
      [] processor \in {"i386", "i686", "x86"} -> "x86"
      [] processor \in {"aarch64", "arm64"} -> "aarch64"
      [] processor \notin {"aarch64", "arm64"} /\ StartsWith(processor, "arm") -> "arm"
      [] OTHER -> "x86_64"

\* C10: with FMI_ARCHITECTURE not preset, the platform tag is the family of the
\* target's processor identifier (the host's when the target's is empty), then
\* "-windows" on Windows, "-darwin" on Apple and "-linux" otherwise.
C10_PlatformByFamily ==
    (cmake.at = "end" /\ cmake.preset = "")
        => cmake.FMI_PLATFORM
               = FamilyOf(ChosenProcessor)
                 \o (IF cmake.WIN32 THEN "-windows"
                     ELSE IF cmake.APPLE THEN "-darwin" ELSE "-linux")

C10_Witness ==
    /\ cmake.at = "end"
    /\ cmake.preset = ""
    /\ cmake.CMAKE_SYSTEM_PROCESSOR = ""
    /\ cmake.CMAKE_HOST_SYSTEM_PROCESSOR = "arm64"
    /\ cmake.APPLE
    /\ cmake.FMI_PLATFORM = "aarch64-darwin"

====
